---- MODULE Spec2Model ----
(***************************************************************************)
(* Model of magento_analytics_complete.py: the validation, cleaning,       *)
(* reconciliation and settlement pipeline run over three raw record sets   *)
(* (orders, transactions, customers).  The script is one straight-line     *)
(* batch; pc is the section / transform the script is about to run.        *)
(*                                                                         *)
(* Text values that the code converts (SKU, subtotal) are sequences of     *)
(* one-character strings.  Money is an integer number of cents.  A missing *)
(* text value (None / NaN in an object column) is NULL, a missing number   *)
(* (NaN in a float column) is NaN.                                         *)
(***************************************************************************)
EXTENDS Integers, Sequences, FiniteSets, TLC

VARIABLES
    pc,               \* position of the script
    df_orders,        \* raw orders (table magento_orders, magento_orders.csv)
    df_transactions,  \* raw transactions (table payment_transactions, its CSV)
    df_customers,     \* raw customers (table magento_customers, its CSV)
    issues_log,       \* Section 4 issue list (df_issues is built from it)
    tax_format,       \* 4C summary row
    orphans,          \* 4G query result
    orders,           \* Section 5 working frame
    changed,          \* T2 report frame
    bad_dates,        \* T5 count of unparseable dates
    unmapped,         \* T7 frame of orders with program UNMAPPED
    mismatches,       \* T8 frame of grand-total mismatches
    orders_clean,     \* Section 6 frame / table read from orders_clean.csv
    transactions,     \* Section 6 frame read from payment_transactions.csv
    customers_df,     \* Section 6 frame read from magento_customers.csv
    recon_summary,    \* 6A result
    orphans_6B,       \* 6B result
    unsettled_6C,     \* 6C result
    mismatches_6D,    \* 6D result
    settled,          \* Section 7 filtered transactions
    eligible,         \* Section 7 filtered orders
    settlement,       \* Section 7 joined frame
    settlement_final  \* Section 7 output records

vars == <<pc, df_orders, df_transactions, df_customers, issues_log, tax_format,
          orphans, orders, changed, bad_dates, unmapped, mismatches,
          orders_clean, transactions, customers_df, recon_summary, orphans_6B,
          unsettled_6C, mismatches_6D, settled, eligible, settlement,
          settlement_final>>

----------------------------------------------------------------------------
(* Bounds of the model *)

MaxOrders == 2
MaxTxns == 2
MaxStatusOrders == 2
MaxStatusTxns == 2
MaxDedupOrders == 3
MaxMoneyOrders == 1
MaxMoneyTxns == 2
MaxTaxOrders == 2
MaxParseOrders == 2
MaxIncentiveOrders == 1
MaxSkuOrders == 2
MaxCustomerOrders == 2
MaxCustomerTxns == 2
MaxRawOrders == 2
MaxRawTxns == 1

----------------------------------------------------------------------------
(* Missing values *)

NULL == "NULL"
NaN == -1

notna(x) == x # NaN

fillna0(x) == IF x = NaN THEN 0 ELSE x

Abs(x) == IF x < 0 THEN -x ELSE x

----------------------------------------------------------------------------
(* Generic sequence helpers *)

RECURSIVE Flatten(_)
Flatten(ss) == IF ss = <<>> THEN <<>> ELSE Head(ss) \o Flatten(Tail(ss))

Map(s, F(_)) == [i \in DOMAIN s |-> F(s[i])]

RECURSIVE SumSeq(_)
SumSeq(s) == IF s = <<>> THEN 0 ELSE Head(s) + SumSeq(Tail(s))

SeqsUpTo(S, n) == UNION {[1..k -> S] : k \in 1..n}

----------------------------------------------------------------------------
(* float64 arithmetic on money.  A column value c/100 (c cents) is the     *)
(* binary64 nearest to it; ReprErr(c) is 100 * 2^59 * (fl(c/100) - c/100), *)
(* an integer.  The significand of fl(c/100) is round(c * 2^k / 100) with  *)
(* k = 59 - BinExp(c), so the error is decided by (c * 2^k) mod 100.       *)

RECURSIVE Pow2(_)
Pow2(n) == IF n = 0 THEN 1 ELSE 2 * Pow2(n - 1)

RECURSIVE Pow2Mod100(_)
Pow2Mod100(k) == IF k = 0 THEN 1 ELSE (2 * Pow2Mod100(k - 1)) % 100

RECURSIVE BinExpFrom(_, _)
BinExpFrom(c, n) ==
    IF c * 128 < 100 * Pow2(n + 1) THEN n ELSE BinExpFrom(c, n + 1)

\* 7 + floor(log2(c/100)) for c >= 1
BinExp(c) == BinExpFrom(c, 0)

ReprErr(c) ==
    IF c = 0 THEN 0
    ELSE LET n == BinExp(c)
             r == ((c % 100) * Pow2Mod100(59 - n)) % 100
         IN  (IF r < 50 THEN -r ELSE 100 - r) * Pow2(n)

\* abs(fl(a/100) - fl(b/100)) > fl(tol/100) in float64
FloatAbsDiffGT(a, b, tol) ==
    LET hi == IF a >= b THEN a ELSE b
        lo == IF a >= b THEN b ELSE a
    IN  \/ hi - lo > tol
        \/ hi - lo = tol /\ ReprErr(hi) - ReprErr(lo) > ReprErr(tol)

----------------------------------------------------------------------------
(* Text helpers *)

LowerLetters == <<"a","b","c","d","e","f","g","h","i","j","k","l","m",
                  "n","o","p","q","r","s","t","u","v","w","x","y","z">>
UpperLetters == <<"A","B","C","D","E","F","G","H","I","J","K","L","M",
                  "N","O","P","Q","R","S","T","U","V","W","X","Y","Z">>

\* str.upper on one character
UpperChar(c) ==
    IF \E i \in DOMAIN LowerLetters : LowerLetters[i] = c
    THEN UpperLetters[CHOOSE i \in DOMAIN LowerLetters : LowerLetters[i] = c]
    ELSE c

RECURSIVE LStrip(_)
LStrip(t) == IF t # <<>> /\ Head(t) = " " THEN LStrip(Tail(t)) ELSE t

RECURSIVE RStrip(_)
RStrip(t) ==
    IF t # <<>> /\ t[Len(t)] = " " THEN RStrip(SubSeq(t, 1, Len(t) - 1)) ELSE t

\* str.strip
Strip(t) == RStrip(LStrip(t))

\* str.replace(old, new) for a one-character old
ReplaceChar(t, old, new) == [i \in DOMAIN t |-> IF t[i] = old THEN new ELSE t[i]]

\* str.replace(old, "") for a one-character old
RemoveChar(t, old) == LET Keep(c) == c # old
                      IN  [i \in DOMAIN SelectSeq(t, Keep) |-> SelectSeq(t, Keep)[i]]

----------------------------------------------------------------------------
(* Transform 2: SKU normalization *)

normalized_sku_keep_case(sku) ==
    ReplaceChar(ReplaceChar(Strip(sku), "_", "-"), " ", "-")

normalized_sku(sku) ==
    ReplaceChar(ReplaceChar(Strip([i \in DOMAIN sku |-> UpperChar(sku[i])]),
                            "_", "-"), " ", "-")

----------------------------------------------------------------------------
(* Transform 3: currency normalization *)

Digits == <<"0","1","2","3","4","5","6","7","8","9">>

IsDigit(c) == \E i \in DOMAIN Digits : Digits[i] = c

DigitVal(c) == (CHOOSE i \in DOMAIN Digits : Digits[i] = c) - 1

RECURSIVE DigitsVal(_)
DigitsVal(t) ==
    IF t = <<>> THEN 0 ELSE 10 * DigitsVal(SubSeq(t, 1, Len(t) - 1)) + DigitVal(t[Len(t)])

AllDigits(t) == \A i \in DOMAIN t : IsDigit(t[i])

\* the text left after removing "$" and ","
StripCurrency(text) == RemoveChar(RemoveChar(text, "$"), ",")

DotPos(t) == IF \E i \in DOMAIN t : t[i] = "."
             THEN CHOOSE i \in DOMAIN t : t[i] = "." /\ \A j \in 1..(i - 1) : t[j] # "."
             ELSE Len(t) + 1

\* float() accepts the text: digits with at most one point and a digit somewhere
ParsesAsFloat(t) ==
    LET ip == SubSeq(t, 1, DotPos(t) - 1)
        fp == SubSeq(t, DotPos(t) + 1, Len(t))
    IN  AllDigits(ip) /\ AllDigits(fp) /\ Len(ip) + Len(fp) >= 1

\* float(t).round(2) in cents, for a text with at most two fractional digits
FloatCents(t) ==
    LET ip == SubSeq(t, 1, DotPos(t) - 1)
        fp == SubSeq(t, DotPos(t) + 1, Len(t))
        f2 == IF Len(fp) = 0 THEN 0
              ELSE IF Len(fp) = 1 THEN 10 * DigitVal(fp[1])
              ELSE DigitsVal(SubSeq(fp, 1, 2))
    IN  100 * DigitsVal(ip) + f2

\* astype(float) raises ValueError on this subtotal text
SubtotalRaises(text) == ~ParsesAsFloat(StripCurrency(text))

subtotal_clean(text) == FloatCents(StripCurrency(text))

----------------------------------------------------------------------------
(* Transform 4: tax unification *)

\* a resolution that prefers the itemized pair over the combined amount
resolve_tax_itemized_first(row) ==
    IF notna(row.state_tax) /\ notna(row.county_tax)
    THEN <<row.state_tax + row.county_tax, "itemized">>
    ELSE IF notna(row.combined_tax)
    THEN <<row.combined_tax, "combined">>
    ELSE <<NaN, "missing">>

resolve_tax(row) ==
    IF notna(row.combined_tax)
    THEN <<row.combined_tax, "combined">>
    ELSE IF notna(row.state_tax) /\ notna(row.county_tax)
    THEN <<row.state_tax + row.county_tax, "itemized">>
    ELSE <<NaN, "missing">>

----------------------------------------------------------------------------
(* Transform 5: date normalization.  A date text MM/DD/YYYY HH:MM is the   *)
(* sequence of its five numbers; any other text is a sequence of another   *)
(* length.  NaT and a missing ISO text are the empty sequence.             *)

NaT == <<>>

IsLeap(y) == (y % 4 = 0 /\ y % 100 # 0) \/ y % 400 = 0

DaysIn(m, y) == IF m = 2 THEN (IF IsLeap(y) THEN 29 ELSE 28)
                ELSE IF m \in {4, 6, 9, 11} THEN 30 ELSE 31

\* pd.to_datetime(..., errors="coerce") followed by strftime("%Y-%m-%dT%H:%M:%SZ")
order_date_iso(d) ==
    IF /\ Len(d) = 5
       /\ d[1] \in 1..12
       /\ d[3] \in 1..9999
       /\ d[2] \in 1..DaysIn(d[1], d[3])
       /\ d[4] \in 0..23
       /\ d[5] \in 0..59
    THEN <<d[3], d[1], d[2], d[4], d[5], 0>>
    ELSE NaT

----------------------------------------------------------------------------
(* Transform 6: status code mapping *)

STATUS_MAP ==
    [complete   |-> << <<"1","1","0">>, "INVOICED", TRUE>>,
     processing |-> << <<"1","0","0">>, "IN_PROGRESS", TRUE>>,
     closed     |-> << <<"1","2","0">>, "CLOSED", FALSE>>,
     pending    |-> << <<"5","0">>, "PENDING", FALSE>>,
     canceled   |-> << <<"9","9","9">>, "VOID", FALSE>>]

StatusGet_unknown_eligible(s) ==
    IF s \in DOMAIN STATUS_MAP THEN STATUS_MAP[s]
    ELSE << <<"0","0","0">>, "UNKNOWN", TRUE>>

\* STATUS_MAP.get(s, ("000","UNKNOWN",False))
StatusGet(s) ==
    IF s \in DOMAIN STATUS_MAP THEN STATUS_MAP[s]
    ELSE << <<"0","0","0">>, "UNKNOWN", FALSE>>

----------------------------------------------------------------------------
(* Transform 7: SKU -> incentive program.  Rates are in percent. *)

SKU_LED_001 == <<"S","K","U","-","L","E","D","-","0","0","1">>
SKU_THERM_002 == <<"S","K","U","-","T","H","E","R","M","-","0","0","2">>
SKU_SMART_003 == <<"S","K","U","-","S","M","A","R","T","-","0","0","3">>
SKU_AUDIT_004 == <<"S","K","U","-","A","U","D","I","T","-","0","0","4">>
SKU_HVAC_005 == <<"S","K","U","-","H","V","A","C","-","0","0","5">>
HVAC_005 == <<"H","V","A","C","-","0","0","5">>
SKU_REBATE_006 == <<"S","K","U","-","R","E","B","A","T","E","-","0","0","6">>
THERM002 == <<"T","H","E","R","M","0","0","2">>

INCENTIVE_MAP ==
    (SKU_LED_001 :> <<"ENERGY_EFF_LIGHTING", 15>>) @@
    (SKU_THERM_002 :> <<"SMART_THERMOSTAT", 20>>) @@
    (SKU_SMART_003 :> <<"SMART_HOME_PROG", 18>>) @@
    (SKU_AUDIT_004 :> <<"HOME_ENERGY_AUDIT", 25>>) @@
    (SKU_HVAC_005 :> <<"HVAC_UPGRADE", 22>>) @@
    (HVAC_005 :> <<"HVAC_UPGRADE", 22>>) @@
    (SKU_REBATE_006 :> <<"DIRECT_REBATE", 30>>) @@
    (THERM002 :> <<"SMART_THERMOSTAT", 20>>)

\* INCENTIVE_MAP.get(s, ("UNMAPPED", 0))
IncentiveGet(s) ==
    IF s \in DOMAIN INCENTIVE_MAP THEN INCENTIVE_MAP[s] ELSE <<"UNMAPPED", 0>>

----------------------------------------------------------------------------
(* Key comparison.  SQL "=" is never true of a NULL; pandas (merge,         *)
(* drop_duplicates) treats two missing keys as the same key.                *)

SqlEq(a, b) == a # NULL /\ b # NULL /\ a = b

PdEq(a, b) == a = b

\* Identifiers of the model in SQLite's sort order (NULL sorts first)
IdsSorted == <<NULL, "A", "B", "C", "E">>

\* rows of tbl ordered by order_id, rows of one identifier in table order
OrderByOrderId(tbl) ==
    Flatten([k \in DOMAIN IdsSorted |->
                LET Has(r) == r.order_id = IdsSorted[k] IN SelectSeq(tbl, Has)])

----------------------------------------------------------------------------
(* Section 4: validation queries over the raw tables *)

\* 4A: SELECT order_id, COUNT(*) ... GROUP BY order_id HAVING COUNT(*) > 1
\*     ORDER BY occurrences DESC   (GROUP BY puts the NULL identifiers in one group)
Occurrences(tbl, id) == Cardinality({i \in DOMAIN tbl : tbl[i].order_id = id})

DupesQuery_no_having(tbl) ==
    LET groups == [k \in DOMAIN IdsSorted |->
                      [order_id |-> IdsSorted[k],
                       occurrences |-> Occurrences(tbl, IdsSorted[k])]]
        WithCount(n) == LET Is(g) == g.occurrences = n IN SelectSeq(groups, Is)
        desc == [j \in 1..Len(tbl) |-> WithCount(Len(tbl) + 1 - j)]
    IN  Flatten(desc)

DupesQuery(tbl) ==
    LET groups == [k \in DOMAIN IdsSorted |->
                      [order_id |-> IdsSorted[k],
                       occurrences |-> Occurrences(tbl, IdsSorted[k])]]
        WithCount(n) == LET Is(g) == g.occurrences = n IN SelectSeq(groups, Is)
        \* occurrence counts from Len(tbl) down to 2
        desc == [j \in 1..(Len(tbl) - 1) |-> WithCount(Len(tbl) + 1 - j)]
    IN  Flatten(desc)

DuplicateIssue(row) ==
    [issue_type |-> "DUPLICATE_ORDER",
     order_id |-> row.order_id,
     transaction_id |-> NULL,
     detail |-> <<"order_id appears Nx in export", row.occurrences>>,
     action_required |-> "Keep first occurrence - delete remaining rows"]

\* 4B: SELECT ... FROM magento_orders WHERE invoice_number IS NULL ORDER BY order_id
MissingInvQuery(tbl) ==
    LET NoInv(r) == r.invoice_number = NULL
    IN  OrderByOrderId(SelectSeq(tbl, NoInv))

MissingInvoiceIssue(row) ==
    [issue_type |-> "MISSING_INVOICE",
     order_id |-> row.order_id,
     transaction_id |-> NULL,
     detail |-> <<"invoice_number is NULL - cannot submit for payment", NaN>>,
     action_required |-> "Request invoice number from finance/billing team"]

\* 4C: counts of rows per tax format
TaxFormatQuery(tbl) ==
    [combined_format |-> Cardinality({i \in DOMAIN tbl : notna(tbl[i].combined_tax)}),
     itemized_format |-> Cardinality({i \in DOMAIN tbl :
                            notna(tbl[i].state_tax) /\ notna(tbl[i].county_tax)}),
     total_orders |-> Len(tbl)]

\* t LEFT JOIN o ON t.order_id = o.order_id: one <<t, o>> per matching o, or one
\* <<t, NoMatch>> when no o matches
NoMatch == [order_id |-> NULL]

LeftJoinOnOrderId(left, right) ==
    Flatten([i \in DOMAIN left |->
        LET Match(o) == SqlEq(left[i].order_id, o.order_id)
            ms == SelectSeq(right, Match)
        IN  IF ms = <<>> THEN << <<left[i], NoMatch>> >>
            ELSE [j \in DOMAIN ms |-> <<left[i], ms[j]>>]])

\* o INNER JOIN t ON o.order_id = t.order_id: one <<o, t>> per matching pair
InnerJoinOnOrderId(left, right) ==
    Flatten([i \in DOMAIN left |->
        LET Match(t) == SqlEq(left[i].order_id, t.order_id)
            ms == SelectSeq(right, Match)
        IN  [j \in DOMAIN ms |-> <<left[i], ms[j]>>]])

\* 4G / 6B: ... FROM payment_transactions t LEFT JOIN <orders> o
\*          ON t.order_id = o.order_id WHERE o.order_id IS NULL AND t.status = 'settled'
OrphanRow(pair) ==
    [transaction_id |-> pair[1].transaction_id,
     order_id |-> pair[1].order_id,
     gross_amount |-> pair[1].gross_amount,
     status |-> pair[1].status,
     settle_date |-> pair[1].settle_date]

OrphansQuery(txns, ords) ==
    LET Where(pair) == pair[2].order_id = NULL /\ pair[1].status = "settled"
    IN  Map(SelectSeq(LeftJoinOnOrderId(txns, ords), Where), OrphanRow)

OrphanIssue(row) ==
    [issue_type |-> "ORPHAN_TRANSACTION",
     order_id |-> row.order_id,
     transaction_id |-> row.transaction_id,
     detail |-> <<"$N settled - no matching Magento order", row.gross_amount>>,
     action_required |-> "Escalate to finance team for investigation"]

Validate4A ==
    /\ pc = "4A"
    /\ issues_log' = issues_log \o Map(DupesQuery(df_orders), DuplicateIssue)
    /\ pc' = "4B"
    /\ UNCHANGED <<df_orders, df_transactions, df_customers, tax_format, orphans,
                   orders, changed, bad_dates, unmapped, mismatches, orders_clean,
                   transactions, customers_df, recon_summary, orphans_6B,
                   unsettled_6C, mismatches_6D, settled, eligible, settlement,
                   settlement_final>>

Validate4B ==
    /\ pc = "4B"
    /\ issues_log' = issues_log \o Map(MissingInvQuery(df_orders), MissingInvoiceIssue)
    /\ pc' = "4C"
    /\ UNCHANGED <<df_orders, df_transactions, df_customers, tax_format, orphans,
                   orders, changed, bad_dates, unmapped, mismatches, orders_clean,
                   transactions, customers_df, recon_summary, orphans_6B,
                   unsettled_6C, mismatches_6D, settled, eligible, settlement,
                   settlement_final>>

Validate4C ==
    /\ pc = "4C"
    /\ tax_format' = TaxFormatQuery(df_orders)
    /\ pc' = "4G"
    /\ UNCHANGED <<df_orders, df_transactions, df_customers, issues_log, orphans,
                   orders, changed, bad_dates, unmapped, mismatches, orders_clean,
                   transactions, customers_df, recon_summary, orphans_6B,
                   unsettled_6C, mismatches_6D, settled, eligible, settlement,
                   settlement_final>>

Validate4G ==
    /\ pc = "4G"
    /\ orphans' = OrphansQuery(df_transactions, df_orders)
    /\ issues_log' = issues_log \o Map(OrphansQuery(df_transactions, df_orders), OrphanIssue)
    /\ pc' = "S5"
    /\ UNCHANGED <<df_orders, df_transactions, df_customers, tax_format,
                   orders, changed, bad_dates, unmapped, mismatches, orders_clean,
                   transactions, customers_df, recon_summary, orphans_6B,
                   unsettled_6C, mismatches_6D, settled, eligible, settlement,
                   settlement_final>>

\* Section 4 executed once more at the end of the run, from its first statement
\* (issues_log = []) to 4G, on the tables as they are then: magento_orders as
\* loaded in Section 3, payment_transactions as replaced in Section 6
issues_log_kept(log) == log

issues_log_reset(log) == <<>>

Section4Issues(ords, txns) ==
    Map(DupesQuery(ords), DuplicateIssue)
        \o Map(MissingInvQuery(ords), MissingInvoiceIssue)
        \o Map(OrphansQuery(txns, ords), OrphanIssue)

Revalidate ==
    /\ pc = "done"
    /\ issues_log' = issues_log_reset(issues_log) \o Section4Issues(df_orders, transactions)
    /\ tax_format' = TaxFormatQuery(df_orders)
    /\ orphans' = OrphansQuery(transactions, df_orders)
    /\ pc' = "revalidated"
    /\ UNCHANGED <<df_orders, df_transactions, df_customers,
                   orders, changed, bad_dates, unmapped, mismatches, orders_clean,
                   transactions, customers_df, recon_summary, orphans_6B,
                   unsettled_6C, mismatches_6D, settled, eligible, settlement,
                   settlement_final>>

----------------------------------------------------------------------------
(* Section 5: cleaning.  The working frame is read back from the raw CSV;   *)
(* each row carries its pandas index label.                                 *)

\* pd.read_csv("data/raw/magento_orders.csv"): the rows with a RangeIndex
ReadRawOrders(tbl) == [i \in DOMAIN tbl |-> tbl[i] @@ [index |-> i - 1]]

\* deduplication that keeps the last row of each identifier
drop_duplicates_keep_last(frame) ==
    LET Last(i) == \A j \in (i + 1)..Len(frame) :
                       ~PdEq(frame[j].order_id, frame[i].order_id)
        IsLast(r) == Last(r.index + 1)
    IN  SelectSeq(frame, IsLast)

\* Transform 1: drop_duplicates(subset="order_id", keep="first")
drop_duplicates(frame) ==
    LET First(i) == \A j \in 1..(i - 1) : ~PdEq(frame[j].order_id, frame[i].order_id)
        keep == {i \in DOMAIN frame : First(i)}
        RECURSIVE Pick(_)
        Pick(i) == IF i > Len(frame) THEN <<>>
                   ELSE IF i \in keep THEN <<frame[i]>> \o Pick(i + 1)
                   ELSE Pick(i + 1)
    IN  Pick(1)

\* Transform 3: "also round all other monetary fields"; a value in cents is
\* its own rounding and NaN stays NaN
round2(x) == x

\* floor(log2(num / den)) for num, den > 0
RECURSIVE Log2Up(_, _, _)
Log2Up(num, den, e) ==
    IF den * Pow2(e + 1) <= num THEN Log2Up(num, den, e + 1) ELSE e

RECURSIVE Log2Down(_, _, _)
Log2Down(num, den, e) ==
    IF num * Pow2(e) < den THEN Log2Down(num, den, e + 1) ELSE -e

Log2Floor(num, den) ==
    IF num >= den THEN Log2Up(num, den, 0) ELSE Log2Down(num, den, 0)

RECURSIVE Pow2Mod(_, _)
Pow2Mod(k, m) == IF k = 0 THEN 1 ELSE (2 * Pow2Mod(k - 1, m)) % m

\* 100 * M - num * 2^k, where M = round(num * 2^k / 100) is the significand of
\* the binary64 nearest to num/100 and k = 52 - floor(log2(num/100))
SignificandErr(num) ==
    LET k == 52 - Log2Floor(num, 100)
        rho == ((num % 100) * Pow2Mod(k, 100)) % 100
    IN  IF rho < 50 THEN -rho ELSE 100 - rho

\* The float64 value of round(fl(fl(c/100) * fl(pct/100)) * 100) when c * pct / 100
\* is exactly n + 1/2.  With 100 X = c 2^kx + ex and 100 R = pct 2^kr + er the
\* significands of the two factors, the significand m of the product is
\* round(X R / 2^s); G is 10^4 m - c pct 2^K (K = 52 - exponent of the product),
\* so that 100 * product = n + 1/2 + G / (100 * 2^K), which float64 rounds to
\* n + 1/2 itself (then rint takes the even neighbour) or to a value above or
\* below it.
incentive_amount_tie(c, pct) ==
    LET A == c * pct
        n == A \div 100
        ex == SignificandErr(c)
        er == SignificandErr(pct)
        Ec == Log2Floor(c, 100)
        Ep == Log2Floor(pct, 100)
        et == Log2Floor(A, 10000)
        K == 52 - et
        w2 == ((A % 20000) * Pow2Mod(K, 20000)) % 20000
        w == w2 % 10000
        qpar == w2 \div 10000
        N == w * 4096 + c * er * Pow2(Ep - et + 12) + pct * ex * Pow2(Ec - et + 12)
        eps == ex * er
        D == 10000 * 4096
        fl == N \div D
        rem == N % D
        rnd == IF 2 * rem < D THEN fl
               ELSE IF 2 * rem > D THEN fl + 1
               ELSE IF eps > 0 THEN fl + 1
               ELSE IF eps < 0 THEN fl
               ELSE fl + ((qpar + fl) % 2)
        G == 10000 * rnd - w
        T == 100 * Pow2(Log2Floor(2 * n + 1, 2) - et)
        lowT == IF n > 0 THEN T ELSE T \div 2
    IN  IF 2 * G > T THEN n + 1
        ELSE IF -2 * G > lowT THEN n
        ELSE n + (n % 2)

\* Transform 7: (subtotal_clean * incentive_rate).round(2) in cents, rate in
\* percent; numpy rounds as rint(x * 100) / 100
incentive_amount(subtotal, rate) ==
    LET p == subtotal * rate
        q == p \div 100
        r == p % 100
    IN  IF r < 50 THEN q
        ELSE IF r > 50 THEN q + 1
        ELSE incentive_amount_tie(subtotal, rate)

\* Transform 8: recomputed grand total
grand_total_check(row) ==
    row.subtotal_clean + fillna0(row.total_tax) + fillna0(row.shipping)
        - fillna0(row.discount)

\* Transform 8: (grand_total_check - grand_total).abs() > 0.02
TotalTolerance == 2

IsTotalMismatch(row) ==
    /\ notna(row.grand_total)
    /\ FloatAbsDiffGT(grand_total_check(row), row.grand_total, TotalTolerance)

Section5Load ==
    /\ pc = "S5"
    /\ orders' = ReadRawOrders(df_orders)
    /\ pc' = "T1"
    /\ UNCHANGED <<df_orders, df_transactions, df_customers, issues_log, tax_format,
                   orphans, changed, bad_dates, unmapped, mismatches, orders_clean,
                   transactions, customers_df, recon_summary, orphans_6B,
                   unsettled_6C, mismatches_6D, settled, eligible, settlement,
                   settlement_final>>

Transform1 ==
    /\ pc = "T1"
    /\ orders' = drop_duplicates(orders)
    /\ pc' = "T2"
    /\ UNCHANGED <<df_orders, df_transactions, df_customers, issues_log, tax_format,
                   orphans, changed, bad_dates, unmapped, mismatches, orders_clean,
                   transactions, customers_df, recon_summary, orphans_6B,
                   unsettled_6C, mismatches_6D, settled, eligible, settlement,
                   settlement_final>>

Transform2 ==
    /\ pc = "T2"
    /\ orders' = [i \in DOMAIN orders |->
                    orders[i] @@ [normalized_sku |-> normalized_sku(orders[i].sku)]]
    /\ changed' = LET Differs(r) == r.sku # normalized_sku(r.sku)
                      Cols(r) == [order_id |-> r.order_id, sku |-> r.sku,
                                  normalized_sku |-> normalized_sku(r.sku)]
                  IN  Map(SelectSeq(orders, Differs), Cols)
    /\ pc' = "T3"
    /\ UNCHANGED <<df_orders, df_transactions, df_customers, issues_log, tax_format,
                   orphans, bad_dates, unmapped, mismatches, orders_clean,
                   transactions, customers_df, recon_summary, orphans_6B,
                   unsettled_6C, mismatches_6D, settled, eligible, settlement,
                   settlement_final>>

\* astype(float) raises ValueError when any subtotal text is not a number: the
\* exception is not caught and the script ends there
Transform3 ==
    /\ pc = "T3"
    /\ IF \E i \in DOMAIN orders : SubtotalRaises(orders[i].subtotal)
       THEN /\ pc' = "aborted"
            /\ UNCHANGED orders
       ELSE /\ orders' = [i \in DOMAIN orders |->
                            [orders[i] EXCEPT !.shipping = round2(@),
                                              !.discount = round2(@),
                                              !.grand_total = round2(@)]
                            @@ [subtotal_clean |-> subtotal_clean(orders[i].subtotal)]]
            /\ pc' = "T4"
    /\ UNCHANGED <<df_orders, df_transactions, df_customers, issues_log, tax_format,
                   orphans, changed, bad_dates, unmapped, mismatches, orders_clean,
                   transactions, customers_df, recon_summary, orphans_6B,
                   unsettled_6C, mismatches_6D, settled, eligible, settlement,
                   settlement_final>>

Transform4 ==
    /\ pc = "T4"
    /\ orders' = [i \in DOMAIN orders |->
                    orders[i] @@ [total_tax |-> resolve_tax(orders[i])[1],
                                  tax_source |-> resolve_tax(orders[i])[2]]]
    /\ pc' = "T5"
    /\ UNCHANGED <<df_orders, df_transactions, df_customers, issues_log, tax_format,
                   orphans, changed, bad_dates, unmapped, mismatches, orders_clean,
                   transactions, customers_df, recon_summary, orphans_6B,
                   unsettled_6C, mismatches_6D, settled, eligible, settlement,
                   settlement_final>>

Transform5 ==
    /\ pc = "T5"
    /\ orders' = [i \in DOMAIN orders |->
                    orders[i] @@ [order_date_iso |-> order_date_iso(orders[i].order_date)]]
    /\ bad_dates' = Cardinality({i \in DOMAIN orders :
                                    order_date_iso(orders[i].order_date) = NaT})
    /\ pc' = "T6"
    /\ UNCHANGED <<df_orders, df_transactions, df_customers, issues_log, tax_format,
                   orphans, changed, unmapped, mismatches, orders_clean,
                   transactions, customers_df, recon_summary, orphans_6B,
                   unsettled_6C, mismatches_6D, settled, eligible, settlement,
                   settlement_final>>

Transform6 ==
    /\ pc = "T6"
    /\ orders' = [i \in DOMAIN orders |->
                    orders[i] @@ [dynamics_code |-> StatusGet(orders[i].status)[1],
                                  status_label |-> StatusGet(orders[i].status)[2],
                                  payment_eligible |-> StatusGet(orders[i].status)[3]]]
    /\ pc' = "T7"
    /\ UNCHANGED <<df_orders, df_transactions, df_customers, issues_log, tax_format,
                   orphans, changed, bad_dates, unmapped, mismatches, orders_clean,
                   transactions, customers_df, recon_summary, orphans_6B,
                   unsettled_6C, mismatches_6D, settled, eligible, settlement,
                   settlement_final>>

Transform7 ==
    /\ pc = "T7"
    /\ LET Add(r) == r @@
              [incentive_program |-> IncentiveGet(r.normalized_sku)[1],
               incentive_rate |-> IncentiveGet(r.normalized_sku)[2],
               incentive_amount |-> incentive_amount(r.subtotal_clean,
                                        IncentiveGet(r.normalized_sku)[2])]
           IsUnmapped(r) == r.incentive_program = "UNMAPPED"
       IN  /\ orders' = Map(orders, Add)
           /\ unmapped' = SelectSeq(Map(orders, Add), IsUnmapped)
    /\ pc' = "T8"
    /\ UNCHANGED <<df_orders, df_transactions, df_customers, issues_log, tax_format,
                   orphans, changed, bad_dates, mismatches, orders_clean,
                   transactions, customers_df, recon_summary, orphans_6B,
                   unsettled_6C, mismatches_6D, settled, eligible, settlement,
                   settlement_final>>

\* the helper column is added, used and dropped again; orders is then saved to
\* data/processed/orders_clean.csv
Transform8 ==
    /\ pc = "T8"
    /\ mismatches' = LET Add(r) == r @@ [grand_total_check |-> grand_total_check(r)]
                     IN  Map(SelectSeq(orders, IsTotalMismatch), Add)
    /\ pc' = "S6"
    /\ UNCHANGED <<df_orders, df_transactions, df_customers, issues_log, tax_format,
                   orphans, orders, changed, bad_dates, unmapped, orders_clean,
                   transactions, customers_df, recon_summary, orphans_6B,
                   unsettled_6C, mismatches_6D, settled, eligible, settlement,
                   settlement_final>>

----------------------------------------------------------------------------
(* Section 6: reconciliation over the cleaned orders and the transactions   *)

\* a reload that keeps the payment-eligible rows only
ReadCleanOrders_eligible_only(frame) ==
    LET IsEligible(o) == o.payment_eligible = TRUE
        kept == SelectSeq(frame, IsEligible)
    IN  [i \in DOMAIN kept |->
            [kept[i] EXCEPT !.index = i - 1, !.dynamics_code = DigitsVal(@)]]

\* pd.read_csv("data/processed/orders_clean.csv"): the index is not saved, so the
\* rows get a fresh RangeIndex; a column holding only digit texts (dynamics_code)
\* is read as integers
ReadCleanOrders(frame) ==
    [i \in DOMAIN frame |->
        [frame[i] EXCEPT !.index = i - 1, !.dynamics_code = DigitsVal(@)]]

\* read_csv reads a text cell that is one of its default NA texts as a missing
\* value.  The text "None" is among them in pandas 2.0 and later and is an
\* ordinary text before; NA_VALUES lists the two sets a build can have.
NA_TEXTS == {"", "#N/A", "N/A", "NA", "NULL", "NaN", "n/a", "nan", "null", "<NA>"}

NA_VALUES == {NA_TEXTS, NA_TEXTS \cup {"None"}}

TransactionTextColumns == {"transaction_id", "order_id", "settle_date", "status", "auth_code"}

CustomerTextColumns ==
    {"customer_id", "first_name", "last_name", "email", "state", "created_at",
     "loyalty_tier"}

\* pd.read_csv of a raw CSV file: the rows in file order, every NA text of a
\* text column read as missing
ReadRawCsv(tbl, textColumns, na) ==
    [i \in DOMAIN tbl |->
        [f \in DOMAIN tbl[i] |->
            IF f \in textColumns /\ tbl[i][f] \in na THEN NULL ELSE tbl[i][f]]]

\* ROUND(SUM(col), 2) over rows; SUM skips NULLs and is NULL over no value
SqlSum(vals) == LET Has(v) == notna(v)
                IN  IF SelectSeq(vals, Has) = <<>> THEN NaN
                    ELSE SumSeq(SelectSeq(vals, Has))

\* 6A: order count and revenue against settled count and gross amount
ReconSummaryQuery(ords, txns) ==
    LET Elig(o) == o.status \in {"complete", "processing"}
        Settled(t) == t.status = "settled"
        Total(o) == o.grand_total
        Gross(t) == t.gross_amount
        eo == SelectSeq(ords, Elig)
        st == SelectSeq(txns, Settled)
    IN  <<[order_count |-> Cardinality({eo[i].order_id : i \in DOMAIN eo} \ {NULL}),
           total_revenue |-> SqlSum(Map(eo, Total))],
          [order_count |-> Cardinality({st[i].order_id : i \in DOMAIN st} \ {NULL}),
           total_revenue |-> SqlSum(Map(st, Gross))]>>

\* 6C: ... FROM orders_clean o LEFT JOIN payment_transactions t
\*     ON o.order_id = t.order_id WHERE o.payment_eligible = 1 AND t.order_id IS NULL
UnsettledQuery(ords, txns) ==
    LET Where(pair) == pair[1].payment_eligible /\ pair[2].order_id = NULL
        Cols(pair) == [order_id |-> pair[1].order_id,
                       status |-> pair[1].status,
                       grand_total |-> pair[1].grand_total,
                       payment_method |-> pair[1].payment_method]
    IN  Map(SelectSeq(LeftJoinOnOrderId(ords, txns), Where), Cols)

\* stable sort of rows by discrepancy, largest first
RECURSIVE InsertDesc(_, _)
InsertDesc(sorted, row) ==
    IF sorted = <<>> THEN <<row>>
    ELSE IF Head(sorted).discrepancy >= row.discrepancy
    THEN <<Head(sorted)>> \o InsertDesc(Tail(sorted), row)
    ELSE <<row>> \o sorted

RECURSIVE OrderByDiscrepancyDesc(_)
OrderByDiscrepancyDesc(rows) ==
    IF rows = <<>> THEN <<>>
    ELSE InsertDesc(OrderByDiscrepancyDesc(SubSeq(rows, 1, Len(rows) - 1)),
                    rows[Len(rows)])

\* 6D: ... FROM orders_clean o INNER JOIN payment_transactions t
\*     ON o.order_id = t.order_id WHERE ABS(o.grand_total - t.gross_amount) > 0.01
\*     ORDER BY discrepancy DESC
AmountTolerance6D == 1

AmountMismatchQuery(ords, txns) ==
    LET Where(pair) == /\ notna(pair[1].grand_total)
                       /\ notna(pair[2].gross_amount)
                       /\ FloatAbsDiffGT(pair[1].grand_total, pair[2].gross_amount,
                                         AmountTolerance6D)
        Cols(pair) == [order_id |-> pair[1].order_id,
                       magento_total |-> pair[1].grand_total,
                       processor_total |-> pair[2].gross_amount,
                       discrepancy |-> Abs(pair[1].grand_total - pair[2].gross_amount)]
        inner == InnerJoinOnOrderId(ords, txns)
    IN  OrderByDiscrepancyDesc(Map(SelectSeq(inner, Where), Cols))

Section6Load ==
    /\ pc = "S6"
    /\ orders_clean' = ReadCleanOrders(orders)
    /\ \E na \in NA_VALUES :
          /\ transactions' = ReadRawCsv(df_transactions, TransactionTextColumns, na)
          /\ customers_df' = ReadRawCsv(df_customers, CustomerTextColumns, na)
    /\ pc' = "6A"
    /\ UNCHANGED <<df_orders, df_transactions, df_customers, issues_log, tax_format,
                   orphans, orders, changed, bad_dates, unmapped, mismatches,
                   recon_summary, orphans_6B, unsettled_6C, mismatches_6D,
                   settled, eligible, settlement, settlement_final>>

Reconcile6A ==
    /\ pc = "6A"
    /\ recon_summary' = ReconSummaryQuery(orders_clean, transactions)
    /\ pc' = "6B"
    /\ UNCHANGED <<df_orders, df_transactions, df_customers, issues_log, tax_format,
                   orphans, orders, changed, bad_dates, unmapped, mismatches,
                   orders_clean, transactions, customers_df, orphans_6B,
                   unsettled_6C, mismatches_6D, settled, eligible, settlement,
                   settlement_final>>

Reconcile6B ==
    /\ pc = "6B"
    /\ orphans_6B' = OrphansQuery(transactions, orders_clean)
    /\ pc' = "6C"
    /\ UNCHANGED <<df_orders, df_transactions, df_customers, issues_log, tax_format,
                   orphans, orders, changed, bad_dates, unmapped, mismatches,
                   orders_clean, transactions, customers_df, recon_summary,
                   unsettled_6C, mismatches_6D, settled, eligible, settlement,
                   settlement_final>>

Reconcile6C ==
    /\ pc = "6C"
    /\ unsettled_6C' = UnsettledQuery(orders_clean, transactions)
    /\ pc' = "6D"
    /\ UNCHANGED <<df_orders, df_transactions, df_customers, issues_log, tax_format,
                   orphans, orders, changed, bad_dates, unmapped, mismatches,
                   orders_clean, transactions, customers_df, recon_summary,
                   orphans_6B, mismatches_6D, settled, eligible, settlement,
                   settlement_final>>

Reconcile6D ==
    /\ pc = "6D"
    /\ mismatches_6D' = AmountMismatchQuery(orders_clean, transactions)
    /\ pc' = "S7"
    /\ UNCHANGED <<df_orders, df_transactions, df_customers, issues_log, tax_format,
                   orphans, orders, changed, bad_dates, unmapped, mismatches,
                   orders_clean, transactions, customers_df, recon_summary,
                   orphans_6B, unsettled_6C, settled, eligible, settlement,
                   settlement_final>>

----------------------------------------------------------------------------
(* Section 7: settlement-ready dataset *)

\* transactions[transactions["status"] == "settled"] with the columns renamed
SettledFrame(txns) ==
    LET IsSettled(t) == t.status = "settled"
        Rename(t) == [order_id |-> t.order_id,
                      txn_id |-> t.transaction_id,
                      settlement_date |-> t.settle_date,
                      gross_amount |-> t.gross_amount,
                      processing_fee |-> t.processor_fee,
                      net_settled_amount |-> t.net_amount,
                      status |-> t.status,
                      auth_code |-> t.auth_code]
    IN  Map(SelectSeq(txns, IsSettled), Rename)

\* a filter that lets every order through
EligibleFrame_unfiltered(ords) == ords

\* orders_clean[orders_clean["payment_eligible"] == True]
EligibleFrame(ords) ==
    LET IsEligible(o) == o.payment_eligible = TRUE
    IN  SelectSeq(ords, IsEligible)

\* eligible.merge(settled[[...]], on="order_id", how="inner"): every pair of a
\* left row and a right row with the same key, in the order of the left rows
MergeInner(left, right) ==
    Flatten([i \in DOMAIN left |->
        LET Match(t) == PdEq(left[i].order_id, t.order_id)
            ms == SelectSeq(right, Match)
        IN  [j \in DOMAIN ms |->
                left[i] @@ [txn_id |-> ms[j].txn_id,
                            settlement_date |-> ms[j].settlement_date,
                            processing_fee |-> ms[j].processing_fee,
                            net_settled_amount |-> ms[j].net_settled_amount]]])

MergeCustomers_inner(left, custs) ==
    Flatten([i \in DOMAIN left |->
        LET Match(c) == PdEq(left[i].customer_id, c.customer_id)
            ms == SelectSeq(custs, Match)
        IN  [j \in DOMAIN ms |->
                left[i] @@ [first_name |-> ms[j].first_name,
                            last_name |-> ms[j].last_name,
                            email |-> ms[j].email,
                            state |-> ms[j].state]]])

\* settlement.merge(customers_df[[...]], on="customer_id", how="left"): a left
\* row without a customer is kept with missing customer columns
MergeCustomers(left, custs) ==
    Flatten([i \in DOMAIN left |->
        LET Match(c) == PdEq(left[i].customer_id, c.customer_id)
            ms == SelectSeq(custs, Match)
        IN  IF ms = <<>>
            THEN <<left[i] @@ [first_name |-> NULL, last_name |-> NULL,
                               email |-> NULL, state |-> NULL]>>
            ELSE [j \in DOMAIN ms |->
                    left[i] @@ [first_name |-> ms[j].first_name,
                                last_name |-> ms[j].last_name,
                                email |-> ms[j].email,
                                state |-> ms[j].state]]])

\* the output schema: selected and renamed columns
FinalColumns(r) ==
    [order_id |-> r.order_id,
     invoice_number |-> r.invoice_number,
     order_timestamp |-> r.order_date_iso,
     settlement_date |-> r.settlement_date,
     customer_id |-> r.customer_id,
     first_name |-> r.first_name,
     last_name |-> r.last_name,
     email |-> r.email,
     state |-> r.state,
     sku_normalized |-> r.normalized_sku,
     incentive_program |-> r.incentive_program,
     qty |-> r.qty,
     subtotal |-> r.subtotal_clean,
     total_tax |-> r.total_tax,
     tax_source |-> r.tax_source,
     shipping |-> r.shipping,
     discount |-> r.discount,
     grand_total |-> r.grand_total,
     incentive_rate |-> r.incentive_rate,
     incentive_amount |-> r.incentive_amount,
     processing_fee |-> r.processing_fee,
     net_settled_amount |-> r.net_settled_amount,
     dynamics_status_code |-> r.dynamics_code,
     status_label |-> r.status_label,
     txn_id |-> r.txn_id]

Section7Filter ==
    /\ pc = "S7"
    /\ settled' = SettledFrame(transactions)
    /\ eligible' = EligibleFrame(orders_clean)
    /\ pc' = "J1"
    /\ UNCHANGED <<df_orders, df_transactions, df_customers, issues_log, tax_format,
                   orphans, orders, changed, bad_dates, unmapped, mismatches,
                   orders_clean, transactions, customers_df, recon_summary,
                   orphans_6B, unsettled_6C, mismatches_6D, settlement,
                   settlement_final>>

Join1 ==
    /\ pc = "J1"
    /\ settlement' = MergeInner(eligible, settled)
    /\ pc' = "J2"
    /\ UNCHANGED <<df_orders, df_transactions, df_customers, issues_log, tax_format,
                   orphans, orders, changed, bad_dates, unmapped, mismatches,
                   orders_clean, transactions, customers_df, recon_summary,
                   orphans_6B, unsettled_6C, mismatches_6D, settled, eligible,
                   settlement_final>>

Join2 ==
    /\ pc = "J2"
    /\ settlement' = MergeCustomers(settlement, customers_df)
    /\ pc' = "final"
    /\ UNCHANGED <<df_orders, df_transactions, df_customers, issues_log, tax_format,
                   orphans, orders, changed, bad_dates, unmapped, mismatches,
                   orders_clean, transactions, customers_df, recon_summary,
                   orphans_6B, unsettled_6C, mismatches_6D, settled, eligible,
                   settlement_final>>

SelectFinal ==
    /\ pc = "final"
    /\ settlement_final' = Map(settlement, FinalColumns)
    /\ pc' = "done"
    /\ UNCHANGED <<df_orders, df_transactions, df_customers, issues_log, tax_format,
                   orphans, orders, changed, bad_dates, unmapped, mismatches,
                   orders_clean, transactions, customers_df, recon_summary,
                   orphans_6B, unsettled_6C, mismatches_6D, settled, eligible,
                   settlement>>

----------------------------------------------------------------------------
(* Raw inputs.  Section 2 of the script stands for the upstream export: the *)
(* pipeline is checked over every raw data set built from the records below *)

BaseOrder ==
    [order_id |-> "A",
     customer_id |-> "CUST-0001",
     order_date |-> <<6, 22, 2024, 12, 0>>,
     sku |-> SKU_LED_001,
     qty |-> 1,
     subtotal |-> <<"$","1","0","0",".","0","0">>,
     state_tax |-> NaN,
     county_tax |-> NaN,
     combined_tax |-> 750,
     shipping |-> 500,
     discount |-> 200,
     grand_total |-> 11050,
     status |-> "complete",
     payment_method |-> "authorizenet",
     invoice_number |-> "INV-00001"]

BaseTxn ==
    [order_id |-> "A",
     settle_date |-> "2024-06-24",
     gross_amount |-> 11050,
     processor_fee |-> 350,
     net_amount |-> 10700,
     status |-> "settled",
     auth_code |-> "AUTH10000"]

TxnIds == <<"TXN-1", "TXN-2", "TXN-3", "TXN-4">>

\* transaction identifiers are assigned in file order
WithTxnIds(ts) == [i \in DOMAIN ts |-> ts[i] @@ [transaction_id |-> TxnIds[i]]]

Customers ==
    <<[customer_id |-> "CUST-0001", first_name |-> "Jordan", last_name |-> "Smith",
       email |-> "user1@example.com", state |-> "CA", created_at |-> "2024-01-01",
       loyalty_tier |-> "gold"]>>

\* order rows that differ in identifier, status and invoice number
JoinOrders ==
    {[BaseOrder EXCEPT !.order_id = c[1], !.status = c[2], !.invoice_number = c[3]] :
        c \in {<<"A", "complete", "INV-00001">>,
               <<"A", "pending", NULL>>,
               <<"B", "processing", NULL>>,
               <<"B", "holded", "INV-00002">>,
               <<NULL, "complete", "INV-00003">>}}

\* transactions that differ in the order they claim to settle and in status
JoinTxns ==
    {[BaseTxn EXCEPT !.order_id = c[1], !.status = c[2]] :
        c \in {<<"A", "settled">>, <<"A", "voided">>, <<"E", "settled">>,
               <<"E", "refunded">>, <<NULL, "settled">>}}

\* order rows of every lifecycle status, and of a status outside STATUS_MAP
StatusOrders ==
    {[BaseOrder EXCEPT !.status = st] :
        st \in {"complete", "processing", "pending", "closed", "canceled", "holded"}}
    \cup {[BaseOrder EXCEPT !.order_id = "B"]}

StatusTxns ==
    {[BaseTxn EXCEPT !.order_id = c[1], !.status = c[2]] :
        c \in {<<"A", "settled">>, <<"A", "voided">>, <<"B", "settled">>}}

\* order rows that repeat identifiers with different content
DedupOrders ==
    {[BaseOrder EXCEPT !.order_id = c[1], !.status = c[2], !.invoice_number = c[3]] :
        c \in {<<"A", "complete", "INV-00001">>,
               <<"A", "pending", NULL>>,
               <<"B", "processing", "INV-00002">>,
               <<NULL, "complete", "INV-00003">>,
               <<NULL, "closed", NULL>>}}

DedupTxns == {BaseTxn}

\* order rows that differ in the money fields; transactions that differ in the
\* gross amount
MoneyOrders ==
    {[BaseOrder EXCEPT !.combined_tax = c[1], !.shipping = c[2], !.discount = c[3],
                       !.grand_total = c[4]] :
        c \in {750, NaN} \X {500, 501, NaN} \X {200, NaN}
              \X {11049, 11050, 11052, 12000}}

MoneyTxns ==
    {[BaseTxn EXCEPT !.gross_amount = g] : g \in {11050, 11051, 11052, 11053}}

\* order rows with every combination of present and absent tax fields
TaxOrders ==
    {[BaseOrder EXCEPT !.combined_tax = c[1], !.state_tax = c[2], !.county_tax = c[3]] :
        c \in {750, NaN} \X {600, NaN} \X {151, NaN}}

\* order rows whose subtotal text or order date text may fail to parse
ParseOrders ==
    {[BaseOrder EXCEPT !.subtotal = c[1], !.order_date = c[2]] :
        c \in {<<"$","1","0","0",".","0","0">>,
               <<"$","1",",","2","4","7",".","5","0">>,
               <<"$","0",".","0","0">>,
               <<"$","1","2","x",".","5","0">>,
               <<"T","B","D">>}
              \X {<<6, 22, 2024, 12, 0>>, <<2, 30, 2024, 12, 0>>, <<0>>}}

\* order rows that differ in product and in subtotal: products of two incentive
\* programs and one product outside INCENTIVE_MAP
SKU_XYZ_9 == <<"S","K","U","-","X","Y","Z","-","9">>

IncentiveOrders ==
    {[BaseOrder EXCEPT !.sku = c[1], !.subtotal = c[2]] :
        c \in {SKU_LED_001, SKU_AUDIT_004, SKU_XYZ_9}
              \X {<<"$","2","0","0",".","0","0">>,
                  <<"$","1","0","0",".","0","0">>,
                  <<"$","3",".","3","0">>,
                  <<"$","0",".","1","0">>,
                  <<"$","0",".","7","0">>}}

\* order rows of two orders whose product is typed in different ways
SkuOrders ==
    {[BaseOrder EXCEPT !.order_id = c[1], !.sku = c[2]] :
        c \in {"A", "B"}
              \X {SKU_LED_001,
                  <<"s","k","u","_","l","e","d","_","0","0","1">>,
                  <<" ","S","k","u"," ","L","e","d","_","0","0","1"," ">>,
                  <<"h","v","a","c","-","0","0","5">>,
                  <<"H","V","A","C","_","0","0","5">>,
                  SKU_XYZ_9}}

\* order rows of two orders placed by a known customer or by a customer that is
\* not in the customer table
CustomerOrders ==
    {[BaseOrder EXCEPT !.order_id = c[1], !.customer_id = c[2]] :
        c \in {"A", "B"} \X {"CUST-0001", "CUST-0099"}}

CustomerTxns ==
    {[BaseTxn EXCEPT !.order_id = c[1], !.status = c[2]] :
        c \in {<<"A", "settled">>, <<"B", "settled">>, <<"A", "voided">>}}

\* customer tables whose customer has a loyalty tier, or the tier "None"
RawCustomers ==
    {<<[Customers[1] EXCEPT !.loyalty_tier = tier]>> :
        tier \in {"bronze", "silver", "gold", "None"}}

\* read_csv types a column by its values: the order_id columns are text columns,
\* so each holds at least one identifier
HasTextId(rows) == \E i \in DOMAIN rows : rows[i].order_id # NULL

InitWithCustomers(orderRows, txnRows, customerTables, maxOrders, maxTxns) ==
    /\ pc = "4A"
    /\ df_orders \in {os \in SeqsUpTo(orderRows, maxOrders) : HasTextId(os)}
    /\ df_transactions \in
          {WithTxnIds(ts) : ts \in {t \in SeqsUpTo(txnRows, maxTxns) : HasTextId(t)}}
    /\ df_customers \in customerTables
    /\ issues_log = <<>>
    /\ tax_format = [combined_format |-> 0, itemized_format |-> 0, total_orders |-> 0]
    /\ orphans = <<>>
    /\ orders = <<>>
    /\ changed = <<>>
    /\ bad_dates = 0
    /\ unmapped = <<>>
    /\ mismatches = <<>>
    /\ orders_clean = <<>>
    /\ transactions = <<>>
    /\ customers_df = <<>>
    /\ recon_summary = <<>>
    /\ orphans_6B = <<>>
    /\ unsettled_6C = <<>>
    /\ mismatches_6D = <<>>
    /\ settled = <<>>
    /\ eligible = <<>>
    /\ settlement = <<>>
    /\ settlement_final = <<>>

InitWith(orderRows, txnRows, maxOrders, maxTxns) ==
    InitWithCustomers(orderRows, txnRows, {Customers}, maxOrders, maxTxns)

Init == InitWith(JoinOrders, JoinTxns, MaxOrders, MaxTxns)

Next ==
    \/ Validate4A
    \/ Validate4B
    \/ Validate4C
    \/ Validate4G
    \/ Section5Load
    \/ Transform1
    \/ Transform2
    \/ Transform3
    \/ Transform4
    \/ Transform5
    \/ Transform6
    \/ Transform7
    \/ Transform8
    \/ Section6Load
    \/ Reconcile6A
    \/ Reconcile6B
    \/ Reconcile6C
    \/ Reconcile6D
    \/ Section7Filter
    \/ Join1
    \/ Join2
    \/ SelectFinal
    \/ Revalidate

Spec == Init /\ [][Next]_vars

InitStatus == InitWith(StatusOrders, StatusTxns, MaxStatusOrders, MaxStatusTxns)

SpecStatus == InitStatus /\ [][Next]_vars

InitDedup == InitWith(DedupOrders, DedupTxns, MaxDedupOrders, 1)

SpecDedup == InitDedup /\ [][Next]_vars

InitMoney == InitWith(MoneyOrders, MoneyTxns, MaxMoneyOrders, MaxMoneyTxns)

SpecMoney == InitMoney /\ [][Next]_vars

InitTax == InitWith(TaxOrders, DedupTxns, MaxTaxOrders, 1)

SpecTax == InitTax /\ [][Next]_vars

InitParse == InitWith(ParseOrders, DedupTxns, MaxParseOrders, 1)

SpecParse == InitParse /\ [][Next]_vars

InitIncentive == InitWith(IncentiveOrders, DedupTxns, MaxIncentiveOrders, 1)

SpecIncentive == InitIncentive /\ [][Next]_vars

InitSku == InitWith(SkuOrders, DedupTxns, MaxSkuOrders, 1)

SpecSku == InitSku /\ [][Next]_vars

InitCustomer ==
    InitWith(CustomerOrders, CustomerTxns, MaxCustomerOrders, MaxCustomerTxns)

SpecCustomer == InitCustomer /\ [][Next]_vars

InitRaw == InitWithCustomers(JoinOrders, JoinTxns, RawCustomers, MaxRawOrders, MaxRawTxns)

SpecRaw == InitRaw /\ [][Next]_vars

----------------------------------------------------------------------------
(* Vocabulary of the claims *)

EligibleStatuses == {"complete", "processing"}

\* the first raw row with this identifier
FirstRowIndex(id) ==
    CHOOSE i \in DOMAIN df_orders :
        /\ df_orders[i].order_id = id
        /\ \A j \in 1..(i - 1) : df_orders[j].order_id # id

InRawOrders(id) == \E i \in DOMAIN df_orders : df_orders[i].order_id = id

\* an identifier that is present (not missing) and carried by some order row
IdOccurs(id, rows) == id # NULL /\ \E i \in DOMAIN rows : rows[i].order_id = id

SettledTxnsFor(id) ==
    {i \in DOMAIN df_transactions :
        df_transactions[i].status = "settled" /\ df_transactions[i].order_id = id}

\* the script has run the named step
Deduplicated == pc \notin {"4A", "4B", "4C", "4G", "S5", "T1"}

CountWhere(rows, P(_)) == Cardinality({i \in DOMAIN rows : P(rows[i])})

----------------------------------------------------------------------------
\* C1: every settlement record belongs to an order whose status is complete or
\* processing and whose identifier is the order identifier of a settled
\* transaction; an order of any other status has no settlement record, even
\* when a settled transaction names it.
C1_SettlementOnlyEligibleSettled ==
    \A k \in DOMAIN settlement_final :
        LET id == settlement_final[k].order_id
        IN  /\ InRawOrders(id)
            /\ df_orders[FirstRowIndex(id)].status \in EligibleStatuses
            /\ \E i \in SettledTxnsFor(id) :
                  df_transactions[i].transaction_id = settlement_final[k].txn_id

C1_Witness ==
    /\ pc = "done"
    /\ settlement_final # <<>>
    /\ \E i \in DOMAIN df_orders :
          /\ df_orders[i].status \notin EligibleStatuses
          /\ SettledTxnsFor(df_orders[i].order_id) # {}
          /\ \A k \in DOMAIN settlement_final :
                settlement_final[k].order_id # df_orders[i].order_id

\* C2: no order identifier appears in more than one settlement record, and a
\* record exists only for an order with exactly one matching settled transaction.
C2_OneRecordPerOrder ==
    /\ \A k1, k2 \in DOMAIN settlement_final :
          settlement_final[k1].order_id = settlement_final[k2].order_id => k1 = k2
    /\ \A k \in DOMAIN settlement_final :
          Cardinality(SettledTxnsFor(settlement_final[k].order_id)) = 1

\* C3: after deduplication the frame holds, for each identifier of the raw
\* orders, exactly one row, which is the first raw row with that identifier, and
\* the surviving rows are in their raw order.
C3_DedupKeepsFirst ==
    Deduplicated /\ pc # "aborted" =>
        /\ \A i \in DOMAIN df_orders :
              LET id == df_orders[i].order_id
                  Same(r) == r.order_id = id
              IN  /\ CountWhere(orders, Same) = 1
                  /\ \A k \in DOMAIN orders :
                        orders[k].order_id = id =>
                            /\ orders[k].index = FirstRowIndex(id) - 1
                            /\ orders[k].status = df_orders[FirstRowIndex(id)].status
                            /\ orders[k].invoice_number =
                                   df_orders[FirstRowIndex(id)].invoice_number
        /\ \A k1, k2 \in DOMAIN orders :
              k1 < k2 => orders[k1].index < orders[k2].index
        /\ \A k1, k2 \in DOMAIN orders :
              orders[k1].order_id = orders[k2].order_id => k1 = k2

C3_Witness ==
    /\ Deduplicated
    /\ Len(df_orders) = 3
    /\ df_orders[1].order_id = df_orders[3].order_id
    /\ df_orders[1] # df_orders[3]
    /\ df_orders[2].order_id # df_orders[1].order_id
    /\ Len(orders) = 2

\* C4: every settled transaction whose order identifier is carried by no
\* order is in the orphan set exactly once, has exactly one ORPHAN_TRANSACTION
\* issue with the escalation remediation, and is in no settlement record; the
\* orphan set holds no other transaction.
C4_OrphansDetected ==
    pc = "done" =>
        /\ \A i \in DOMAIN df_transactions :
              LET t == df_transactions[i]
                  IsT(row) == row.transaction_id = t.transaction_id
                  IsIssue(x) == /\ x.issue_type = "ORPHAN_TRANSACTION"
                                /\ x.transaction_id = t.transaction_id
                                /\ x.action_required =
                                       "Escalate to finance team for investigation"
              IN  t.status = "settled" /\ ~IdOccurs(t.order_id, df_orders) =>
                      /\ CountWhere(orphans, IsT) = 1
                      /\ CountWhere(issues_log, IsIssue) = 1
                      /\ \A k \in DOMAIN settlement_final :
                            settlement_final[k].txn_id # t.transaction_id
        /\ \A k \in DOMAIN orphans :
              /\ orphans[k].status = "settled"
              /\ ~IdOccurs(orphans[k].order_id, df_orders)

\* C5: every payment-eligible order of the cleaned set without a settled
\* transaction for its identifier is in no settlement record and is in the
\* unsettled-orders result; an eligible order with one is not in that result.
C5_UnsettledClassified ==
    pc = "done" =>
        \A k \in DOMAIN orders_clean :
            LET o == orders_clean[k]
                HasSettled == \E i \in DOMAIN transactions :
                                  /\ transactions[i].status = "settled"
                                  /\ SqlEq(transactions[i].order_id, o.order_id)
                IsO(row) == row.order_id = o.order_id
            IN  o.payment_eligible =>
                    /\ ~HasSettled => /\ CountWhere(settlement_final, IsO) = 0
                                      /\ CountWhere(unsettled_6C, IsO) >= 1
                    /\ HasSettled => CountWhere(unsettled_6C, IsO) = 0

\* C10: at the end of a run the issue log holds an issue of the matching kind
\* for every duplicated identifier, every order without invoice, every orphan
\* transaction, every eligible order without settled transaction, every
\* mismatching order/transaction pair and every order with an unmapped SKU.
HasIssue(kind, id) ==
    \E n \in DOMAIN issues_log :
        issues_log[n].issue_type = kind /\ issues_log[n].order_id = id

C10_EveryDefectLogged ==
    pc = "done" =>
        /\ \A i \in DOMAIN df_orders :
              /\ Occurrences(df_orders, df_orders[i].order_id) > 1 =>
                     HasIssue("DUPLICATE_ORDER", df_orders[i].order_id)
              /\ df_orders[i].invoice_number = NULL =>
                     HasIssue("MISSING_INVOICE", df_orders[i].order_id)
        /\ \A i \in DOMAIN df_transactions :
              /\ df_transactions[i].status = "settled"
              /\ ~IdOccurs(df_transactions[i].order_id, df_orders)
              => HasIssue("ORPHAN_TRANSACTION", df_transactions[i].order_id)
        /\ \A k \in DOMAIN orders_clean :
              /\ (/\ orders_clean[k].payment_eligible
                  /\ \A i \in DOMAIN transactions :
                        ~(/\ transactions[i].status = "settled"
                          /\ SqlEq(transactions[i].order_id, orders_clean[k].order_id)))
                 => HasIssue("UNSETTLED_ORDER", orders_clean[k].order_id)
              /\ orders_clean[k].incentive_program = "UNMAPPED"
                 => HasIssue("UNMAPPED_PRODUCT", orders_clean[k].order_id)
              /\ \A i \in DOMAIN transactions :
                    (/\ SqlEq(transactions[i].order_id, orders_clean[k].order_id)
                     /\ Abs(orders_clean[k].grand_total - transactions[i].gross_amount) > 2)
                    => HasIssue("AMOUNT_MISMATCH", orders_clean[k].order_id)

\* C6: for every order and transaction with the same identifier a mismatch
\* row is emitted exactly when the recorded grand total and the gross amount
\* differ by more than 2 cents, and the row carries both amounts and the
\* discrepancy.
C6_AmountMismatchOver2Cents ==
    pc = "done" =>
        \A k \in DOMAIN orders_clean : \A i \in DOMAIN transactions :
            LET o == orders_clean[k]
                t == transactions[i]
                IsRow(row) == /\ row.order_id = o.order_id
                              /\ row.magento_total = o.grand_total
                              /\ row.processor_total = t.gross_amount
                              /\ row.discrepancy = Abs(o.grand_total - t.gross_amount)
            IN  SqlEq(o.order_id, t.order_id) =>
                    (CountWhere(mismatches_6D, IsRow) >= 1
                        <=> Abs(o.grand_total - t.gross_amount) > 2)

\* C7: the recomputed total is subtotal + unified tax + shipping - discount
\* with absent values as 0, and an order is reported as a total mismatch exactly
\* when the recomputed and the recorded grand total differ by more than 2 cents.
TotalChecked == pc \in {"S6", "6A", "6B", "6C", "6D", "S7", "J1", "J2", "final", "done"}

Recomputed(o) ==
    o.subtotal_clean
      + (IF o.total_tax = NaN THEN 0 ELSE o.total_tax)
      + (IF o.shipping = NaN THEN 0 ELSE o.shipping)
      - (IF o.discount = NaN THEN 0 ELSE o.discount)

C7_TotalMismatchOver2Cents ==
    TotalChecked =>
        \A k \in DOMAIN orders :
            LET IsRow(row) == /\ row.index = orders[k].index
                              /\ row.grand_total_check = Recomputed(orders[k])
            IN  CountWhere(mismatches, IsRow) = 1
                    <=> Abs(Recomputed(orders[k]) - orders[k].grand_total) > 2

\* C8: the unified tax is the combined amount (source combined) whenever the
\* combined field is present; else the sum of state and county tax (source
\* itemized) when both are present; else it is absent (source missing).  The
\* unified tax is absent exactly when the source is missing.
TaxResolved == pc \notin {"4A", "4B", "4C", "4G", "S5", "T1", "T2", "T3", "T4", "aborted"}

C8_TaxPriorityRule ==
    TaxResolved =>
        \A k \in DOMAIN orders :
            LET raw == df_orders[orders[k].index + 1]
                o == orders[k]
            IN  /\ raw.combined_tax # NaN =>
                      o.total_tax = raw.combined_tax /\ o.tax_source = "combined"
                /\ raw.combined_tax = NaN /\ raw.state_tax # NaN /\ raw.county_tax # NaN =>
                      /\ o.total_tax = raw.state_tax + raw.county_tax
                      /\ o.tax_source = "itemized"
                /\ raw.combined_tax = NaN /\ (raw.state_tax = NaN \/ raw.county_tax = NaN) =>
                      o.total_tax = NaN /\ o.tax_source = "missing"
                /\ o.tax_source \in {"combined", "itemized", "missing"}
                /\ o.total_tax = NaN <=> o.tax_source = "missing"

C8_Witness ==
    /\ TaxResolved
    /\ \E k \in DOMAIN orders :
          /\ df_orders[orders[k].index + 1].combined_tax # NaN
          /\ df_orders[orders[k].index + 1].state_tax # NaN
          /\ df_orders[orders[k].index + 1].county_tax # NaN
          /\ orders[k].tax_source = "combined"
          /\ orders[k].total_tax = 750

\* C9: a subtotal text or order date that does not parse never stops the run:
\* the script does not abort, and at the end every order is normalized, an
\* order with an unparseable date carries the failure marker and the count of
\* such orders is recorded.
IsBadDate(o) == o.order_date_iso = NaT

C9_ParseFailureNeverAborts ==
    /\ pc # "aborted"
    /\ pc = "done" =>
          /\ \A i \in DOMAIN df_orders :
                \E k \in DOMAIN orders_clean :
                    orders_clean[k].order_id = df_orders[i].order_id
          /\ bad_dates = CountWhere(orders_clean, IsBadDate)

IssuesOf(kind, id) ==
    {k \in DOMAIN issues_log :
        issues_log[k].issue_type = kind /\ issues_log[k].order_id = id}

\* C11: once duplicate detection has run, the issue log holds exactly one
\* DUPLICATE_ORDER issue for each identifier carried by more than one raw order
\* row, that issue reports the number of rows and the keep-first remediation,
\* and it holds no DUPLICATE_ORDER issue for an identifier carried by one row.
C11_OneDuplicateIssuePerIdentifier ==
    pc # "4A" =>
        \A n \in DOMAIN IdsSorted :
            LET id == IdsSorted[n]
                found == IssuesOf("DUPLICATE_ORDER", id)
            IN  /\ Occurrences(df_orders, id) > 1 => Cardinality(found) = 1
                /\ Occurrences(df_orders, id) <= 1 => found = {}
                /\ \A k \in found :
                      /\ issues_log[k].detail[2] = Occurrences(df_orders, id)
                      /\ issues_log[k].action_required =
                             "Keep first occurrence - delete remaining rows"

C11_Witness ==
    /\ pc = "done"
    /\ Occurrences(df_orders, "A") = 2
    /\ Occurrences(df_orders, "B") = 1
    /\ Cardinality(IssuesOf("DUPLICATE_ORDER", "A")) = 1
    /\ IssuesOf("DUPLICATE_ORDER", "B") = {}

RowsOf(id) == {i \in DOMAIN df_orders : df_orders[i].order_id = id}

\* C12: once the missing-invoice audit has run, the issue log holds exactly one
\* MISSING_INVOICE issue for each order whose raw rows all lack the invoice
\* number (also when the order is present in several raw rows), and none for an
\* order whose raw rows all carry an invoice number.
C12_OneMissingInvoiceIssuePerOrder ==
    pc \notin {"4A", "4B"} =>
        \A n \in DOMAIN IdsSorted :
            LET id == IdsSorted[n]
                found == IssuesOf("MISSING_INVOICE", id)
            IN  id # NULL /\ RowsOf(id) # {} =>
                  /\ (\A i \in RowsOf(id) : df_orders[i].invoice_number = NULL)
                        => Cardinality(found) = 1
                  /\ (\A i \in RowsOf(id) : df_orders[i].invoice_number # NULL)
                        => found = {}

IncentiveResolved ==
    pc \in {"T8", "S6", "6A", "6B", "6C", "6D", "S7", "J1", "J2", "final", "done"}

\* subtotal * rate (cents, percent) rounded to whole cents; an exact half cent
\* may go to the nearest even cent or up
RoundedProducts(subtotal, rate) ==
    LET p == subtotal * rate
        q == p \div 100
        r == p % 100
    IN  IF r < 50 THEN {q}
        ELSE IF r > 50 THEN {q + 1}
        ELSE {q + 1, q + (q % 2)}

\* C13: after incentive resolution every order whose canonical SKU is in the
\* mapping carries that SKU's program and rate and an incentive amount equal to
\* subtotal * rate rounded to two fractional digits; every other order carries
\* program UNMAPPED, rate 0 and amount 0 and is one of the rows counted as
\* unmapped.
C13_IncentiveIsRoundedProduct ==
    IncentiveResolved =>
        /\ \A k \in DOMAIN orders :
              LET o == orders[k]
              IN  IF o.normalized_sku \in DOMAIN INCENTIVE_MAP
                  THEN /\ o.incentive_program = INCENTIVE_MAP[o.normalized_sku][1]
                       /\ o.incentive_rate = INCENTIVE_MAP[o.normalized_sku][2]
                       /\ o.incentive_amount \in
                              RoundedProducts(o.subtotal_clean, o.incentive_rate)
                  ELSE /\ o.incentive_program = "UNMAPPED"
                       /\ o.incentive_rate = 0
                       /\ o.incentive_amount = 0
        /\ LET NotMapped(o) == o.normalized_sku \notin DOMAIN INCENTIVE_MAP
           IN  Len(unmapped) = CountWhere(orders, NotMapped)

Separators == {"_", " ", "-"}

\* the two texts are the same once surrounding blanks are dropped, letter
\* case is ignored and any separator stands for any other
SameLogicalSku(s1, s2) ==
    LET a == Strip(s1)
        b == Strip(s2)
    IN  /\ Len(a) = Len(b)
        /\ \A i \in DOMAIN a :
              \/ UpperChar(a[i]) = UpperChar(b[i])
              \/ a[i] \in Separators /\ b[i] \in Separators

IsCanonicalSku(s) ==
    /\ s = Strip(s)
    /\ \A i \in DOMAIN s : s[i] = UpperChar(s[i]) /\ s[i] \notin {"_", " "}

SkuNormalized == pc \notin {"4A", "4B", "4C", "4G", "S5", "T1", "T2"}

\* C14: the normalized SKU of every order is a fixed point of the
\* normalization, an SKU that is canonical already is kept as it is, and two
\* orders whose raw SKUs differ only in letter case, surrounding blanks or
\* separator character have the same normalized SKU and, once the incentive
\* program is resolved, the same program.
C14_SkuNormalizationIdempotent ==
    SkuNormalized =>
        /\ \A k \in DOMAIN orders :
              /\ normalized_sku(orders[k].normalized_sku) = orders[k].normalized_sku
              /\ IsCanonicalSku(orders[k].normalized_sku)
              /\ IsCanonicalSku(orders[k].sku) =>
                     orders[k].normalized_sku = orders[k].sku
        /\ \A k1, k2 \in DOMAIN orders :
              SameLogicalSku(orders[k1].sku, orders[k2].sku) =>
                  /\ orders[k1].normalized_sku = orders[k2].normalized_sku
                  /\ IncentiveResolved =>
                         orders[k1].incentive_program = orders[k2].incentive_program

C14_Witness ==
    /\ pc = "done"
    /\ Len(orders) = 2
    /\ orders[1].sku # orders[2].sku
    /\ ~IsCanonicalSku(orders[1].sku)
    /\ SameLogicalSku(orders[1].sku, orders[2].sku)
    /\ orders[1].normalized_sku = SKU_LED_001
    /\ orders[2].normalized_sku = SKU_LED_001
    /\ orders[1].incentive_program = "ENERGY_EFF_LIGHTING"
    /\ orders[2].incentive_program = "ENERGY_EFF_LIGHTING"

StatusMapped ==
    pc \in {"T7", "T8", "S6", "6A", "6B", "6C", "6D", "S7", "J1", "J2", "final", "done"}

\* the downstream code, label and eligibility the mapping promises for a status
ExpectedStatusRow(s) ==
    CASE s = "complete"   -> << <<"1","1","0">>, "INVOICED", TRUE>>
      [] s = "processing" -> << <<"1","0","0">>, "IN_PROGRESS", TRUE>>
      [] s = "closed"     -> << <<"1","2","0">>, "CLOSED", FALSE>>
      [] s = "pending"    -> << <<"5","0">>, "PENDING", FALSE>>
      [] s = "canceled"   -> << <<"9","9","9">>, "VOID", FALSE>>
      [] OTHER            -> << <<"0","0","0">>, "UNKNOWN", FALSE>>

\* C15: after status mapping every order, whatever its status, carries the
\* code, the label and the eligibility of the one table row of its status, and
\* an order whose status is not in the table carries the sentinel
\* ('000', 'UNKNOWN', not eligible).
C15_StatusMappingTotal ==
    StatusMapped =>
        \A k \in DOMAIN orders :
            <<orders[k].dynamics_code, orders[k].status_label,
              orders[k].payment_eligible>> = ExpectedStatusRow(orders[k].status)

C15_Witness ==
    /\ pc = "done"
    /\ Len(orders) = 2
    /\ orders[1].status = "holded"
    /\ orders[1].dynamics_code = <<"0","0","0">>
    /\ orders[1].status_label = "UNKNOWN"
    /\ ~orders[1].payment_eligible
    /\ orders[2].status = "complete"
    /\ orders[2].dynamics_code = <<"1","1","0">>
    /\ orders[2].payment_eligible

\* the pairs of an eligible normalized order and a settled transaction of that
\* order
SettledPairs ==
    {p \in (DOMAIN orders_clean) \X (DOMAIN transactions) :
        /\ orders_clean[p[1]].payment_eligible = TRUE
        /\ transactions[p[2]].status = "settled"
        /\ IdOccurs(transactions[p[2]].order_id, <<orders_clean[p[1]]>>)}

RecordsOf(p) ==
    {k \in DOMAIN settlement_final :
        /\ settlement_final[k].order_id = orders_clean[p[1]].order_id
        /\ settlement_final[k].txn_id = transactions[p[2]].transaction_id}

CustomersOf(id) == {c \in DOMAIN customers_df : customers_df[c].customer_id = id}

\* C16: attaching the customers neither drops nor adds a settlement record:
\* the output holds exactly one record for each pair of an eligible order and a
\* settled transaction of it; the record carries the customer's fields when the
\* order's customer is in the customer table and missing customer fields when
\* it is not.
C16_CustomerLeftJoin ==
    pc = "done" =>
        /\ Len(settlement_final) = Cardinality(SettledPairs)
        /\ \A p \in SettledPairs :
              /\ Cardinality(RecordsOf(p)) = 1
              /\ \A k \in RecordsOf(p) :
                    LET rec == settlement_final[k]
                        cs == CustomersOf(orders_clean[p[1]].customer_id)
                    IN  /\ rec.customer_id = orders_clean[p[1]].customer_id
                        /\ cs = {} =>
                              /\ rec.first_name = NULL
                              /\ rec.last_name = NULL
                              /\ rec.email = NULL
                              /\ rec.state = NULL
                        /\ \A c \in cs :
                              /\ rec.first_name = customers_df[c].first_name
                              /\ rec.last_name = customers_df[c].last_name
                              /\ rec.email = customers_df[c].email
                              /\ rec.state = customers_df[c].state

C16_Witness ==
    /\ pc = "done"
    /\ Len(settlement_final) = 2
    /\ settlement_final[1].customer_id = "CUST-0099"
    /\ settlement_final[1].first_name = NULL
    /\ settlement_final[1].state = NULL
    /\ settlement_final[2].customer_id = "CUST-0001"
    /\ settlement_final[2].first_name = "Jordan"

HasCombinedShape(r) == notna(r.combined_tax)

HasItemizedShape(r) == notna(r.state_tax) /\ notna(r.county_tax)

TaxFormatViolation(r) == HasCombinedShape(r) = HasItemizedShape(r)

\* an issue about the order that is none of the duplicate, missing-invoice and
\* orphan issues
FormatViolationReported(id) ==
    \E k \in DOMAIN issues_log :
        /\ issues_log[k].order_id = id
        /\ issues_log[k].issue_type \notin
               {"DUPLICATE_ORDER", "MISSING_INVOICE", "ORPHAN_TRANSACTION"}

\* C18: once the tax-format audit has run, every raw order row that has both
\* tax shapes populated, or neither, is reported as a format violation, and a
\* row with exactly one shape is counted in the summary without a report.
C18_TaxFormatViolationReported ==
    pc \notin {"4A", "4B", "4C"} =>
        /\ \A i \in DOMAIN df_orders :
              TaxFormatViolation(df_orders[i]) <=>
                  FormatViolationReported(df_orders[i].order_id)
        /\ tax_format.combined_format = CountWhere(df_orders, HasCombinedShape)
        /\ tax_format.itemized_format = CountWhere(df_orders, HasItemizedShape)

\* C19: no settlement record belongs to an order without order identifier,
\* and no settlement record carries a transaction without order identifier;
\* such a settled transaction is among the reported orphans instead.
C19_MissingIdentifierExcluded ==
    pc = "done" =>
        /\ \A k \in DOMAIN settlement_final : settlement_final[k].order_id # NULL
        /\ \A t \in DOMAIN transactions :
              transactions[t].order_id = NULL =>
                  /\ \A k \in DOMAIN settlement_final :
                        settlement_final[k].txn_id # transactions[t].transaction_id
                  /\ transactions[t].status = "settled" =>
                        \E j \in DOMAIN orphans_6B :
                            orphans_6B[j].transaction_id = transactions[t].transaction_id

\* C20: no step of the run changes the raw order, customer and transaction
\* collections: the ingested frames stay as they are, and the transaction and
\* customer tables that Section 6 writes again hold, row for row and field for
\* field, what ingestion had put there.
C20_RawSnapshotUnchanged ==
    [][/\ df_orders' = df_orders
       /\ df_transactions' = df_transactions
       /\ df_customers' = df_customers
       /\ pc = "S6" => /\ transactions' = df_transactions
                       /\ customers_df' = df_customers]_vars

Reconciled6B == pc \in {"6C", "6D", "S7", "J1", "J2", "final", "done", "revalidated"}

DuplicateIssueCounts ==
    LET IsDup(x) == x.issue_type = "DUPLICATE_ORDER"
        Extra(x) == x.detail[2] - 1
    IN  Map(SelectSeq(issues_log, IsDup), Extra)

====
